---------------------------- MODULE Spec2Model ----------------------------
(***************************************************************************)
(* A model of src/dqn_main.cpp: the start-up sequence of main, the         *)
(* training loop with its evaluations and snapshots, and PlayOneEpisode    *)
(* with the environment (ALE) and the agent (dqn::DQN) as collaborators.   *)
(* Spec runs the program step by step; EpsilonSpec applies                 *)
(* CalculateEpsilon over a range of flags and iterations; TrainingSpec     *)
(* runs the training loop episode by episode, without a bound on the       *)
(* number of episodes.                                                     *)
(***************************************************************************)
EXTENDS Integers, Sequences, FiniteSets, TLC

\* ------------------------------------------------------------ bounds ----

\* The environment ends a game after at most this many act calls.
MaxActs == 3

\* At most this many calls of PlayOneEpisode in one run of the model.
MaxEpisodes == 4

\* ------------------------------------------------------- constants ------

\* std::numeric_limits<double>::lowest(), below every score of the model.
LOWEST == -1000

PLAYER_A_NOOP == "PLAYER_A_NOOP"

\* An absent next frame (boost::none); the frames are numbered from 1.
none == 0

\* The life counts the environment reports; a game starts with one life.
LifeCounts == 0..2

\* Raw score deltas a single act call may return.
ScoreDeltas == {-1, 0, 1}

\* ale.getMinimalActionSet()
legal_actions == {"PLAYER_A_FIRE"}

\* solver_param.max_iter()
max_iter == 2

\* The numeric flags of every command line the model runs.
BaseFlags ==
  [evaluate |-> FALSE, gui |-> FALSE, time |-> FALSE, save |-> "save",
   resume |-> FALSE, snapshot |-> "", weights |-> "",
   memory |-> 3, explore |-> 1, epsilon_pm |-> 100,
   memory_threshold |-> 1, update_frequency |-> 2,
   skip_frame |-> 1, frames_per_timestep |-> 1, obscure_size |-> 1,
   evaluate_with_epsilon_pm |-> 50, evaluate_freq |-> 2,
   repeat_games |-> 10]

\* The same with single actions, two stacked frames and no obscuring.
StackFlags ==
  [BaseFlags EXCEPT !.skip_frame = 0, !.frames_per_timestep = 2,
                    !.obscure_size = 0]

\* The command lines the model runs: training from scratch, resumed from a
\* discovered or a given snapshot, evaluation with and without the window,
\* timing, training without an exploration phase, and the command lines
\* main rejects.
FlagValues ==
  { BaseFlags,
    StackFlags,
    [BaseFlags EXCEPT !.resume = TRUE],
    [StackFlags EXCEPT !.snapshot = "given"],
    [BaseFlags EXCEPT !.snapshot = "given", !.weights = "weights"],
    [BaseFlags EXCEPT !.resume = TRUE, !.weights = "weights"],
    [StackFlags EXCEPT !.evaluate = TRUE, !.save = "", !.weights = "weights"],
    [BaseFlags EXCEPT !.evaluate = TRUE, !.gui = TRUE, !.snapshot = "given"],
    [BaseFlags EXCEPT !.time = TRUE],
    [BaseFlags EXCEPT !.explore = 0],
    [BaseFlags EXCEPT !.save = ""] }

\* ----------------------------------------------------------- state ------

VARIABLES
  pc,              \* position in main / PlayOneEpisode / Evaluate
  FLAGS,           \* the gflags
  mem_file,        \* is_regular_file(mem_fname): "unknown" until queried
  restored,        \* dqn.RestoreSolver has been called
  loaded,          \* dqn.LoadReplayMemory has been called
  written,         \* names of the best-score snapshots written in this run
  ale,             \* the environment: game_over, lives, acts since reset
  iter,            \* dqn.current_iteration()
  memory,          \* the agent's replay memory
  ret,             \* who called PlayOneEpisode
  played,          \* calls of PlayOneEpisode so far
  update,          \* PlayOneEpisode's parameter
  epsilon,         \* PlayOneEpisode's parameter
  remaining_lives, past_frames, episode, current_frame, total_score,
  first_action, frame, action, immediate_score, i, reward,
  screens,         \* frames produced by PreprocessScreen in this episode
  obscured,        \* frames ObscureScreen has been applied to
  lives_before,    \* ale.lives() when the step began
  selects,         \* continuation flags of the SelectAction calls so far
  remembers,       \* RememberEpisode calls of this PlayOneEpisode call
  handed,          \* the Episode handed to RememberEpisode
  updates,         \* UpdateRandom calls of the current step
  deltas,          \* returns of the act calls of the step under way
  last_eval_iter, episode_count, best_score, score,
  scores,          \* Evaluate's vector of episode scores
  avg_score,
  evals,           \* Evaluate calls since the loop condition was tested
  snaps            \* Snapshot calls since the loop condition was tested

mainVars == <<last_eval_iter, episode_count, best_score, score, scores,
              avg_score, evals, snaps>>
startVars == <<FLAGS, mem_file, restored, loaded, written>>
agentVars == <<iter, memory>>
callVars == <<ret, played, update, epsilon>>
localVars == <<remaining_lives, past_frames, episode, current_frame,
               total_score, first_action, frame, action, immediate_score,
               i, reward, screens, obscured, lives_before, selects,
               remembers, handed, updates, deltas>>
vars == <<pc, startVars, ale, agentVars, callVars, localVars, mainVars>>


\* ------------------------------------------------------- helpers --------

Abs(x) == IF x < 0 THEN -x ELSE x

RECURSIVE Sum(_)
Sum(s) == IF s = <<>> THEN 0 ELSE Head(s) + Sum(Tail(s))

\* The locals of PlayOneEpisode when no call is active.
NoLocals ==
  /\ remaining_lives' = 0
  /\ past_frames' = <<>>
  /\ episode' = <<>>
  /\ current_frame' = none
  /\ total_score' = 0
  /\ first_action' = TRUE
  /\ frame' = 0
  /\ action' = PLAYER_A_NOOP
  /\ immediate_score' = 0
  /\ i' = 0
  /\ reward' = 0
  /\ screens' = 0
  /\ obscured' = {}
  /\ lives_before' = 0
  /\ selects' = <<>>
  /\ handed' = <<>>
  /\ updates' = 0
  /\ deltas' = <<>>

\* A freshly loaded or reset game.
FreshGame == [game_over |-> FALSE, lives |-> 1, acts |-> 0]

\* Nothing has been loaded, played or written yet.
Idle ==
  /\ mem_file = "unknown"
  /\ restored = FALSE
  /\ loaded = FALSE
  /\ written = <<>>
  /\ ale = FreshGame
  /\ memory = <<>>
  /\ ret = "none"
  /\ played = 0
  /\ update = FALSE
  /\ remaining_lives = 0
  /\ past_frames = <<>>
  /\ episode = <<>>
  /\ current_frame = none
  /\ total_score = 0
  /\ first_action = TRUE
  /\ frame = 0
  /\ action = PLAYER_A_NOOP
  /\ immediate_score = 0
  /\ i = 0
  /\ reward = 0
  /\ screens = 0
  /\ obscured = {}
  /\ lives_before = 0
  /\ selects = <<>>
  /\ remembers = 0
  /\ handed = <<>>
  /\ updates = 0
  /\ deltas = <<>>
  /\ last_eval_iter = 0
  /\ episode_count = 0
  /\ best_score = LOWEST
  /\ score = 0
  /\ scores = <<>>
  /\ avg_score = 0
  /\ evals = 0
  /\ snaps = <<>>

Init ==
  /\ pc = "main"
  /\ FLAGS \in FlagValues
  /\ iter = 0
  /\ epsilon = <<0, 1>>
  /\ Idle

\* ------------------------------------------------------- start-up -------

\* main, lines 186-233: the flags are parsed and the input files checked.
\* Whether the ROM and the solver are regular files is the file system's
\* answer.
CheckInputs ==
  /\ pc = "main"
  /\ \E rom_ok \in BOOLEAN, solver_ok \in BOOLEAN :
       pc' = IF ~rom_ok \/ ~solver_ok \/ (FLAGS.save = "" /\ ~FLAGS.evaluate)
               THEN "exit1"
               ELSE "find_snapshot"
  /\ UNCHANGED <<startVars, ale, agentVars, callVars, localVars, mainVars>>

\* main, lines 244-272: resume discovery, the environment, the check that a
\* snapshot and weights are not both given, the agent and its solver.
\* dqn::FindLatestSnapshot answers with a snapshot or with the empty string.
SetUp ==
  /\ pc = "find_snapshot"
  /\ \E found \in {"", "found"} :
       LET snapshot == IF FLAGS.resume /\ FLAGS.snapshot = ""
                         THEN found ELSE FLAGS.snapshot
       IN /\ FLAGS' = [FLAGS EXCEPT !.snapshot = snapshot]
          /\ pc' = IF snapshot = "" \/ FLAGS.weights = ""
                     THEN "load" ELSE "abort"
  /\ ale' = FreshGame
  /\ iter' = 0
  /\ memory' = <<>>
  /\ UNCHANGED <<mem_file, restored, loaded, written, callVars, localVars,
                 mainVars>>


\* The replay memory a resumed run loads: transitions of an earlier run.
SavedMemory == << [ep |-> 0, idx |-> 1], [ep |-> 0, idx |-> 2] >>

\* The iteration counts a restored solver state may carry: a run under way
\* or one that has used up its budget.
SavedIterations == {1, max_iter}

\* A start-up that goes on as a fresh run when the .replaymemory file is
\* missing.
ResumeFresh ==
  /\ pc = "load"
  /\ IF FLAGS.snapshot /= ""
       THEN \E exists \in BOOLEAN :
              /\ mem_file' = IF exists THEN "present" ELSE "missing"
              /\ IF exists
                   THEN /\ restored' = TRUE
                        /\ loaded' = TRUE
                        /\ iter' \in SavedIterations
                        /\ memory' = SavedMemory
                   ELSE UNCHANGED <<restored, loaded, agentVars>>
       ELSE UNCHANGED <<mem_file, restored, loaded, agentVars>>
  /\ pc' = "mode"
  /\ UNCHANGED <<FLAGS, written, ale, callVars, localVars, mainVars>>

\* main, lines 278-290: with a snapshot to resume from, its .replaymemory
\* file must exist; then the solver and the replay memory are restored.
\* Without a snapshot, weights are loaded if given.
Resume ==
  /\ pc = "load"
  /\ IF FLAGS.snapshot /= ""
       THEN \E exists \in BOOLEAN :
              /\ mem_file' = IF exists THEN "present" ELSE "missing"
              /\ IF exists
                   THEN /\ restored' = TRUE
                        /\ loaded' = TRUE
                        /\ iter' \in SavedIterations
                        /\ memory' = SavedMemory
                        /\ pc' = "mode"
                   ELSE /\ pc' = "abort"
                        /\ UNCHANGED <<restored, loaded, agentVars>>
       ELSE /\ pc' = "mode"
            /\ UNCHANGED <<mem_file, restored, loaded, agentVars>>
  /\ UNCHANGED <<FLAGS, written, ale, callVars, localVars, mainVars>>

\* ----------------------------------------------------- calls -------------

\* FLAGS_evaluate_with_epsilon as a fraction.
EvaluateEpsilon == <<FLAGS.evaluate_with_epsilon_pm, 1000>>

\* The annealing line applied to every iteration.
CalculateEpsilonUnclamped(it) ==
  << 1000 * FLAGS.explore - (1000 - FLAGS.epsilon_pm) * it,
     1000 * FLAGS.explore >>

\* CalculateEpsilon, lines 48-54; the result is the fraction <<num, den>>.
CalculateEpsilon(it) ==
  IF it < FLAGS.explore
    THEN << 1000 * FLAGS.explore - (1000 - FLAGS.epsilon_pm) * it,
            1000 * FLAGS.explore >>
    ELSE << FLAGS.epsilon_pm, 1000 >>

\* A call of PlayOneEpisode(ale, dqn, eps, upd) whose result goes to r.
CallPlayOneEpisode(eps, upd, r) ==
  /\ played < MaxEpisodes
  /\ played' = played + 1
  /\ epsilon' = eps
  /\ update' = upd
  /\ ret' = r
  /\ pc' = "ep_start"

\* An evaluation whose episode runs with updates.
CallEvaluateUpdating(r) ==
  /\ CallPlayOneEpisode(EvaluateEpsilon, TRUE, r)
  /\ evals' = evals + 1

\* Evaluate, lines 162-166: one episode without updates at the evaluation
\* epsilon.
CallEvaluate(r) ==
  /\ CallPlayOneEpisode(EvaluateEpsilon, FALSE, r)
  /\ evals' = evals + 1

\* main, lines 292-300: evaluation mode plays once and returns.
EvaluateMode ==
  /\ pc = "mode"
  /\ FLAGS.evaluate
  /\ IF FLAGS.gui
       THEN CallPlayOneEpisode(EvaluateEpsilon, FALSE, "gui") /\ UNCHANGED evals
       ELSE CallEvaluate("eval_mode")
  /\ UNCHANGED <<startVars, ale, agentVars, localVars, last_eval_iter,
                 episode_count, best_score, score, scores, avg_score, snaps>>

\* main, lines 302-306: timing mode plays one episode with updates.
TimeMode ==
  /\ pc = "mode"
  /\ ~FLAGS.evaluate
  /\ FLAGS.time
  /\ CallPlayOneEpisode(EvaluateEpsilon, TRUE, "time")
  /\ UNCHANGED <<startVars, ale, agentVars, localVars, mainVars>>

\* The scores dqn::FindHiScore may recover from earlier snapshots.
FoundHiScores == {LOWEST, 1}

\* main, lines 308-314: the training state before the loop.
StartTraining ==
  /\ pc = "mode"
  /\ ~FLAGS.evaluate
  /\ ~FLAGS.time
  /\ last_eval_iter' = 0
  /\ episode_count' = 0
  /\ IF FLAGS.resume
       THEN best_score' \in FoundHiScores
       ELSE best_score' = LOWEST
  /\ pc' = "loop"
  /\ UNCHANGED <<startVars, ale, agentVars, callVars, localVars, score,
                 scores, avg_score, evals, snaps>>


\* ------------------------------------------------- PlayOneEpisode -------

\* dqn.ObscureScreen(f, FLAGS_obscure_size) when the size is positive: the
\* frame is shared, so it is obscured wherever it is referenced.
Obscure(set, f) == IF FLAGS.obscure_size > 0 THEN set \cup {f} ELSE set

\* The first n elements of s: the newest are dropped.
FirstN(s, n) == IF Len(s) > n THEN SubSeq(s, 1, n) ELSE s

\* The last n elements of s.
LastN(s, n) == IF Len(s) > n THEN SubSeq(s, Len(s) - n + 1, Len(s)) ELSE s

\* The reward without the normalisation of line 127.
ShapedRewardRaw(imm, lives, remaining) ==
  IF lives < remaining THEN -1 ELSE imm

\* Lines 126-131: the sign of the summed score, or -1 when the life count
\* fell below the tracked one.
ShapedReward(imm, lives, remaining) ==
  IF lives < remaining
    THEN -1
    ELSE IF imm = 0 THEN 0 ELSE imm \div Abs(imm)

\* A transition that keeps its next frame when the game is over.
MakeTransitionKeepingNext(over, cur, act, rew, next) ==
  [frame |-> cur, action |-> act, reward |-> rew, next |-> next]

\* Lines 141-143: the transition of a step.
MakeTransition(over, cur, act, rew, next) ==
  IF over
    THEN [frame |-> cur, action |-> act, reward |-> rew, next |-> none]
    ELSE [frame |-> cur, action |-> act, reward |-> rew, next |-> next]

\* The test with a replay memory at the threshold admitted.
ShouldUpdateAtThreshold(size, fr) ==
  size >= FLAGS.memory_threshold /\ fr % FLAGS.update_frequency = 0

\* Lines 145-146: whether the step runs a learning update.
ShouldUpdate(size, fr) ==
  size > FLAGS.memory_threshold /\ fr % FLAGS.update_frequency = 0

\* dqn.RememberEpisode: the episode's transitions are appended in order and
\* the oldest content is evicted beyond the capacity.
RememberEpisode(mem, ep, id) ==
  LastN(mem \o [k \in 1..Len(ep) |-> [ep |-> id, idx |-> k]], FLAGS.memory)

\* An episode that starts as if its first decision had been made.
EpisodeStartDecided ==
  /\ pc = "ep_start"
  /\ IF ale.game_over
       THEN /\ pc' = "abort"
            /\ UNCHANGED localVars
       ELSE /\ pc' = "step"
            /\ remaining_lives' = ale.lives
            /\ past_frames' = <<>>
            /\ episode' = <<>>
            /\ screens' = 1
            /\ current_frame' = 1
            /\ obscured' = Obscure({}, 1)
            /\ total_score' = 0
            /\ first_action' = FALSE
            /\ frame' = 0
            /\ remembers' = 0
            /\ selects' = <<>>
            /\ UNCHANGED <<action, immediate_score, i, reward, lives_before,
                           handed, updates, deltas>>
  /\ UNCHANGED <<startVars, ale, agentVars, callVars, mainVars>>

\* Lines 76-86: the precondition, the tracked life count, the first frame.
EpisodeStart ==
  /\ pc = "ep_start"
  /\ IF ale.game_over
       THEN /\ pc' = "abort"
            /\ UNCHANGED localVars
       ELSE /\ pc' = "step"
            /\ remaining_lives' = ale.lives
            /\ past_frames' = <<>>
            /\ episode' = <<>>
            /\ screens' = 1
            /\ current_frame' = 1
            /\ obscured' = Obscure({}, 1)
            /\ total_score' = 0
            /\ first_action' = TRUE
            /\ frame' = 0
            /\ remembers' = 0
            /\ selects' = <<>>
            /\ UNCHANGED <<action, immediate_score, i, reward, lives_before,
                           handed, updates, deltas>>
  /\ UNCHANGED <<startVars, ale, agentVars, callVars, mainVars>>

\* A step that takes a new current frame from the screen with updates too.
StepBeginRefreshing ==
  /\ pc = "step"
  /\ ~ale.game_over
  /\ LET fresh == TRUE
         cur == IF fresh THEN screens + 1 ELSE current_frame
         stack == LastN(Append(past_frames, cur), FLAGS.frames_per_timestep)
     IN /\ screens' = IF fresh THEN screens + 1 ELSE screens
        /\ current_frame' = cur
        /\ obscured' = IF fresh THEN Obscure(obscured, cur) ELSE obscured
        /\ past_frames' = stack
        /\ IF Len(stack) = FLAGS.frames_per_timestep
             THEN /\ action' \in legal_actions
                  /\ selects' = Append(selects, ~first_action)
                  /\ first_action' = FALSE
             ELSE /\ action' = PLAYER_A_NOOP
                  /\ UNCHANGED <<selects, first_action>>
  /\ immediate_score' = 0
  /\ i' = 0
  /\ lives_before' = ale.lives
  /\ reward' = 0
  /\ updates' = 0
  /\ deltas' = <<>>
  /\ pc' = "act"
  /\ UNCHANGED <<startVars, ale, agentVars, callVars, mainVars,
                 remaining_lives, episode, total_score, frame, remembers,
                 handed>>

\* Lines 87-119: the loop test holds; the frame stack is refreshed and the
\* action of the step chosen. dqn.SelectAction answers with a legal action.
StepBegin ==
  /\ pc = "step"
  /\ ~ale.game_over
  /\ LET fresh == ~update
         cur == IF fresh THEN screens + 1 ELSE current_frame
         stack == LastN(Append(past_frames, cur), FLAGS.frames_per_timestep)
     IN /\ screens' = IF fresh THEN screens + 1 ELSE screens
        /\ current_frame' = cur
        /\ obscured' = IF fresh THEN Obscure(obscured, cur) ELSE obscured
        /\ past_frames' = stack
        /\ IF Len(stack) = FLAGS.frames_per_timestep
             THEN /\ action' \in legal_actions
                  /\ selects' = Append(selects, ~first_action)
                  /\ first_action' = FALSE
             ELSE /\ action' = PLAYER_A_NOOP
                  /\ UNCHANGED <<selects, first_action>>
  /\ immediate_score' = 0
  /\ i' = 0
  /\ lives_before' = ale.lives
  /\ reward' = 0
  /\ updates' = 0
  /\ deltas' = <<>>
  /\ pc' = "act"
  /\ UNCHANGED <<startVars, ale, agentVars, callVars, mainVars,
                 remaining_lives, episode, total_score, frame, remembers,
                 handed>>

\* ale.act: a score delta, the life count moves by at most one, and the
\* game may end; it ends at the latest after MaxActs calls.
AleAct(a, delta, lives, over) ==
  /\ delta \in ScoreDeltas
  /\ lives \in {a.lives - 1, a.lives, a.lives + 1} \cap LifeCounts
  /\ over \in BOOLEAN
  /\ ale' = [game_over |-> over \/ a.acts + 1 >= MaxActs,
             lives |-> lives,
             acts |-> a.acts + 1]

\* A repeat that goes on after the game has ended.
ActWhenOver ==
  /\ pc = "act"
  /\ i < FLAGS.skip_frame + 1
  /\ \E delta \in ScoreDeltas, lives \in LifeCounts, over \in BOOLEAN :
       /\ AleAct(ale, delta, lives, over)
       /\ immediate_score' = immediate_score + delta
       /\ deltas' = Append(deltas, delta)
  /\ i' = i + 1
  /\ UNCHANGED <<pc, startVars, agentVars, callVars, mainVars,
                 remaining_lives, past_frames, episode, current_frame,
                 total_score, first_action, frame, action, reward, screens,
                 obscured, lives_before, selects, remembers, handed,
                 updates>>

\* Lines 120-122: one more repeat of the action.
Act ==
  /\ pc = "act"
  /\ i < FLAGS.skip_frame + 1 /\ ~ale.game_over
  /\ \E delta \in ScoreDeltas, lives \in LifeCounts, over \in BOOLEAN :
       /\ AleAct(ale, delta, lives, over)
       /\ immediate_score' = immediate_score + delta
       /\ deltas' = Append(deltas, delta)
  /\ i' = i + 1
  /\ UNCHANGED <<pc, startVars, agentVars, callVars, mainVars,
                 remaining_lives, past_frames, episode, current_frame,
                 total_score, first_action, frame, action, reward, screens,
                 obscured, lives_before, selects, remembers, handed,
                 updates>>


\* A step that admits its transition to the replay memory at once.
StepEndAdmitting ==
  /\ pc = "act"
  /\ ~(i < FLAGS.skip_frame + 1 /\ ~ale.game_over)
  /\ total_score' = total_score + immediate_score
  /\ reward' = ShapedReward(immediate_score, ale.lives, remaining_lives)
  /\ remaining_lives' = IF ale.lives < remaining_lives
                          THEN ale.lives ELSE remaining_lives
  /\ IF update
       THEN LET next_frame == screens + 1
            IN /\ screens' = next_frame
               /\ obscured' = Obscure(obscured, current_frame)
               /\ episode' = Append(episode,
                    MakeTransition(ale.game_over, current_frame, action,
                                   reward', next_frame))
               /\ memory' = RememberEpisode(memory, episode', played)
               /\ remembers' = remembers + 1
               /\ IF ShouldUpdate(Len(memory), frame)
                    THEN iter' = iter + 1 /\ updates' = updates + 1
                    ELSE UNCHANGED <<iter, updates>>
               /\ current_frame' = next_frame
       ELSE UNCHANGED <<screens, obscured, episode, iter, updates,
                        current_frame, memory, remembers>>
  /\ frame' = frame + 1
  /\ deltas' = <<>>
  /\ pc' = "step"
  /\ UNCHANGED <<startVars, ale, callVars, mainVars, past_frames,
                 first_action, action, immediate_score, i, lives_before,
                 selects, handed>>

\* Lines 123-150: the repeat is over; the reward is shaped and, with
\* updates, the transition recorded and a learning update run when due.
\* dqn.UpdateRandom advances the solver by one iteration.
StepEnd ==
  /\ pc = "act"
  /\ ~(i < FLAGS.skip_frame + 1 /\ ~ale.game_over)
  /\ total_score' = total_score + immediate_score
  /\ reward' = ShapedReward(immediate_score, ale.lives, remaining_lives)
  /\ remaining_lives' = IF ale.lives < remaining_lives
                          THEN ale.lives ELSE remaining_lives
  /\ IF update
       THEN LET next_frame == screens + 1
            IN /\ screens' = next_frame
               /\ obscured' = Obscure(obscured, current_frame)
               /\ episode' = Append(episode,
                    MakeTransition(ale.game_over, current_frame, action,
                                   reward', next_frame))
               /\ IF ShouldUpdate(Len(memory), frame)
                    THEN iter' = iter + 1 /\ updates' = updates + 1
                    ELSE UNCHANGED <<iter, updates>>
               /\ current_frame' = next_frame
       ELSE UNCHANGED <<screens, obscured, episode, iter, updates,
                        current_frame>>
  /\ frame' = frame + 1
  /\ deltas' = <<>>
  /\ pc' = "step"
  /\ UNCHANGED <<startVars, ale, memory, callVars, mainVars, past_frames,
                 first_action, action, immediate_score, i, lives_before,
                 selects, remembers, handed>>

\* Where PlayOneEpisode's caller continues.
ReturnTo(r) ==
  CASE r = "train" -> "after_episode"
    [] r = "time"  -> "benchmark"
    [] r = "gui"   -> "log_score"
    [] OTHER       -> "evaluate"

\* Lines 87 and 152-154: the loop test fails; with updates the episode is
\* handed to the replay memory.
LoopEnd ==
  /\ pc = "step"
  /\ ale.game_over
  /\ IF update
       THEN /\ memory' = RememberEpisode(memory, episode, played)
            /\ remembers' = remembers + 1
            /\ handed' = episode
       ELSE UNCHANGED <<memory, remembers, handed>>
  /\ pc' = "reset"
  /\ UNCHANGED <<startVars, ale, iter, callVars, mainVars, remaining_lives,
                 past_frames, episode, current_frame, total_score,
                 first_action, frame, action, immediate_score, i, reward,
                 screens, obscured, lives_before, selects, updates, deltas>>

\* A return that leaves the ended game as it is.
ReturnWithoutReset ==
  /\ pc = "reset"
  /\ UNCHANGED ale
  /\ IF ReturnTo(ret) = "evaluate"
       THEN scores' = Append(scores, total_score) /\ UNCHANGED score
       ELSE score' = total_score /\ UNCHANGED scores
  /\ NoLocals
  /\ epsilon' = <<0, 1>>
  /\ update' = FALSE
  /\ pc' = ReturnTo(ret)
  /\ UNCHANGED <<startVars, agentVars, ret, played, remembers,
                 last_eval_iter, episode_count, best_score, avg_score, evals,
                 snaps>>

\* Lines 155-156: the game is reset and the total score returned.
ResetAndReturn ==
  /\ pc = "reset"
  /\ ale' = FreshGame
  /\ IF ReturnTo(ret) = "evaluate"
       THEN scores' = Append(scores, total_score) /\ UNCHANGED score
       ELSE score' = total_score /\ UNCHANGED scores
  /\ NoLocals
  /\ epsilon' = <<0, 1>>
  /\ update' = FALSE
  /\ pc' = ReturnTo(ret)
  /\ UNCHANGED <<startVars, agentVars, ret, played, remembers,
                 last_eval_iter, episode_count, best_score, avg_score, evals,
                 snaps>>

\* --------------------------------------------------------- Evaluate -----

\* Lines 167-178: the average of the scores is returned to the caller.
EvaluateReturn ==
  /\ pc = "evaluate"
  /\ avg_score' = Sum(scores) \div Len(scores)
  /\ scores' = <<>>
  /\ pc' = CASE ret = "eval_loop"  -> "evaluated"
             [] ret = "eval_final" -> "final_snapshot"
             [] OTHER              -> "done"
  /\ UNCHANGED <<startVars, ale, agentVars, callVars, localVars,
                 last_eval_iter, episode_count, best_score, score, evals,
                 snaps>>

\* ----------------------------------------------------- training loop ----

\* The trigger with both conditions required.
EvalTriggerBoth(sc, best, it, last) ==
  (sc > best /\ it >= FLAGS.explore) /\ it >= last + FLAGS.evaluate_freq

\* Lines 324-325: whether an evaluation follows the episode.
EvalTrigger(sc, best, it, last) ==
  (sc > best /\ it >= FLAGS.explore) \/ it >= last + FLAGS.evaluate_freq

\* A best-score snapshot whose name leaves out the score.
HiScoreSnapshotUnnumbered(avg) ==
  [name |-> <<"save", "_HiScore">>, memory |-> FALSE, solver |-> FALSE]

\* dqn.Snapshot(save_path + "_HiScore" + to_string(int(avg)), false, false).
\* The scores are sums of the integer returns of ale.act, and Evaluate
\* averages over one episode, so int(avg) is the score itself.
HiScoreSnapshot(avg) ==
  [name |-> <<"save", "_HiScore", avg>>, memory |-> FALSE, solver |-> FALSE]

\* dqn.Snapshot(save_path, true, true)
RollingSnapshot == [name |-> <<"save">>, memory |-> TRUE, solver |-> TRUE]

\* Lines 315-317: the loop test holds and a training episode is played.
TrainEpisode ==
  /\ pc = "loop"
  /\ iter < max_iter
  /\ CallPlayOneEpisode(CalculateEpsilon(iter), TRUE, "train")
  /\ evals' = 0
  /\ snaps' = <<>>
  /\ UNCHANGED <<startVars, ale, agentVars, localVars, last_eval_iter,
                 episode_count, best_score, score, scores, avg_score>>

\* Lines 318-326: after the episode, an evaluation when one is due.
AfterEpisode ==
  /\ pc = "after_episode"
  /\ episode_count' = episode_count + 1
  /\ IF EvalTrigger(score, best_score, iter, last_eval_iter)
       THEN CallEvaluate("eval_loop")
       ELSE pc' = "loop" /\ UNCHANGED <<callVars, evals>>
  /\ score' = 0
  /\ UNCHANGED <<startVars, ale, agentVars, localVars, last_eval_iter,
                 best_score, scores, avg_score, snaps>>

\* The snapshots when a new best score replaces the rolling snapshot.
EvaluationSnapshotsBestOnly(avg, best) ==
  IF avg > best
    THEN << HiScoreSnapshot(avg) >>
    ELSE << RollingSnapshot >>

\* Lines 327-335: the snapshots written after an evaluation in the loop.
EvaluationSnapshots(avg, best) ==
  IF avg > best
    THEN << HiScoreSnapshot(avg), RollingSnapshot >>
    ELSE << RollingSnapshot >>

\* Lines 327-336: a new best score gets its own snapshot; the rolling
\* snapshot and the evaluation's iteration are recorded in any case.
AfterEvaluation ==
  /\ pc = "evaluated"
  /\ best_score' = IF avg_score > best_score THEN avg_score ELSE best_score
  /\ snaps' = snaps \o EvaluationSnapshots(avg_score, best_score)
  /\ written' = IF avg_score > best_score
                  THEN Append(written, HiScoreSnapshot(avg_score).name)
                  ELSE written
  /\ last_eval_iter' = iter
  /\ avg_score' = 0
  /\ pc' = "loop"
  /\ UNCHANGED <<FLAGS, mem_file, restored, loaded, ale, agentVars, callVars,
                 localVars, episode_count, score, scores, evals>>

\* Lines 315 and 339-340: the loop test fails; a last evaluation unless the
\* iteration is below the last evaluation's.
LoopExit ==
  /\ pc = "loop"
  /\ ~(iter < max_iter)
  /\ snaps' = <<>>
  /\ IF iter >= last_eval_iter
       THEN /\ CallPlayOneEpisode(EvaluateEpsilon, FALSE, "eval_final")
            /\ evals' = 1
       ELSE /\ pc' = "done"
            /\ evals' = 0
            /\ UNCHANGED callVars
  /\ UNCHANGED <<startVars, ale, agentVars, localVars, last_eval_iter,
                 episode_count, best_score, score, scores, avg_score>>

\* Line 341: the rolling snapshot after the last evaluation.
FinalSnapshot ==
  /\ pc = "final_snapshot"
  /\ snaps' = Append(snaps, RollingSnapshot)
  /\ avg_score' = 0
  /\ pc' = "done"
  /\ UNCHANGED <<startVars, ale, agentVars, callVars, localVars,
                 last_eval_iter, episode_count, best_score, score, scores,
                 evals>>

\* Lines 295 and 304-305: the score is logged, or the benchmark run, and
\* main returns.
Finish ==
  /\ pc \in {"log_score", "benchmark"}
  /\ pc' = "done"
  /\ UNCHANGED <<startVars, ale, agentVars, callVars, localVars, mainVars>>

Next ==
  \/ CheckInputs
  \/ SetUp
  \/ Resume
  \/ EvaluateMode
  \/ TimeMode
  \/ StartTraining
  \/ TrainEpisode
  \/ EpisodeStart
  \/ StepBegin
  \/ Act
  \/ StepEnd
  \/ LoopEnd
  \/ ResetAndReturn
  \/ EvaluateReturn
  \/ AfterEpisode
  \/ AfterEvaluation
  \/ LoopExit
  \/ FinalSnapshot
  \/ Finish

Spec == Init /\ [][Next]_vars

\* ------------------------------------------ CalculateEpsilon alone -------

\* The largest exploration horizon and iteration CalculateEpsilon is
\* applied to.
MaxExplore == 3
MaxIteration == 5

\* FLAGS_epsilon in thousandths: the ends and two values inside [0, 1].
FinalEpsilons == {0, 100, 500, 1000}

\* The command lines that differ in -explore and -epsilon.
EpsilonFlagValues ==
  { [BaseFlags EXCEPT !.explore = e, !.epsilon_pm = p] :
      e \in 0..MaxExplore, p \in FinalEpsilons }

EpsilonInit ==
  /\ pc = "epsilon"
  /\ FLAGS \in EpsilonFlagValues
  /\ iter \in 0..MaxIteration
  /\ epsilon = <<0, 1>>
  /\ Idle

\* Line 316: epsilon = CalculateEpsilon(dqn.current_iteration()).
ComputeEpsilon ==
  /\ pc = "epsilon"
  /\ epsilon' = CalculateEpsilon(iter)
  /\ pc' = "epsilon_done"
  /\ UNCHANGED <<startVars, ale, agentVars, ret, played, update, localVars,
                 mainVars>>

\* Lines 315-317: the iteration has advanced when the loop comes round.
AdvanceIteration ==
  /\ pc = "epsilon_done"
  /\ \E it \in (iter + 1)..MaxIteration : iter' = it
  /\ pc' = "epsilon"
  /\ UNCHANGED <<startVars, ale, memory, callVars, localVars, mainVars>>

EpsilonNext == ComputeEpsilon \/ AdvanceIteration

EpsilonSpec == EpsilonInit /\ [][EpsilonNext]_vars


\* --------------------------- the training loop, episode by episode -------

\* The largest replay capacity and memory threshold of the command lines
\* below.
MaxMemory == 3

\* FLAGS_update_frequency on those command lines.
UpdateFrequencies == {1, 2}

\* Fresh training runs that differ in -memory, -memory_threshold and
\* -update_frequency; every step applies its action once.
TrainingFlagValues ==
  { [BaseFlags EXCEPT !.skip_frame = 0, !.memory = m,
                      !.memory_threshold = t, !.update_frequency = f] :
      m \in 1..MaxMemory, t \in 0..MaxMemory, f \in UpdateFrequencies }

\* main, lines 308-314: a fresh run at the first test of the loop.
TrainingInit ==
  /\ pc = "loop"
  /\ FLAGS \in TrainingFlagValues
  /\ iter = 0
  /\ epsilon = <<0, 1>>
  /\ Idle

\* An episode without any learning update.
NoLearningUpdates(size, steps) == 0

\* Lines 87 and 145-148: the UpdateRandom calls of an episode of the given
\* number of steps; the replay memory keeps its size during the episode.
LearningUpdates(size, steps) ==
  Cardinality({fr \in 0..(steps - 1) : ShouldUpdate(size, fr)})

\* Lines 315-317 with the whole of PlayOneEpisode(ale, dqn, epsilon, true):
\* the episode ends after one to MaxActs steps, has run its learning
\* updates and is handed to the replay memory; its score is returned.
PlayTrainingEpisode ==
  /\ pc = "loop"
  /\ iter < max_iter
  /\ \E steps \in 1..MaxActs, sc \in ScoreDeltas :
       /\ iter' = iter + LearningUpdates(Len(memory), steps)
       /\ memory' = RememberEpisode(memory, [k \in 1..steps |-> k], 0)
       /\ score' = sc
  /\ evals' = 0
  /\ snaps' = <<>>
  /\ pc' = "after_episode"
  /\ UNCHANGED <<startVars, ale, callVars, localVars, last_eval_iter,
                 episode_count, best_score, scores, avg_score>>

\* Lines 318-326 with the whole of Evaluate: when an evaluation is due its
\* episode is played without updates and the score returned. The episode
\* counter of the log is left as it is: it grows without bound in a loop
\* that does not end.
PlayEvaluation ==
  /\ pc = "after_episode"
  /\ IF EvalTrigger(score, best_score, iter, last_eval_iter)
       THEN /\ \E avg \in ScoreDeltas : avg_score' = avg
            /\ evals' = evals + 1
            /\ pc' = "evaluated"
       ELSE /\ pc' = "loop"
            /\ UNCHANGED <<avg_score, evals>>
  /\ score' = 0
  /\ UNCHANGED <<startVars, ale, agentVars, callVars, localVars,
                 last_eval_iter, episode_count, best_score, scores, snaps>>

\* Lines 315 and 339-342: the loop test fails; the last evaluation and the
\* rolling snapshot, and main returns.
FinishTraining ==
  /\ pc = "loop"
  /\ ~(iter < max_iter)
  /\ IF iter >= last_eval_iter
       THEN evals' = 1 /\ snaps' = << RollingSnapshot >>
       ELSE evals' = 0 /\ snaps' = <<>>
  /\ pc' = "done"
  /\ UNCHANGED <<startVars, ale, agentVars, callVars, localVars,
                 last_eval_iter, episode_count, best_score, score, scores,
                 avg_score>>

TrainingNext ==
  \/ PlayTrainingEpisode
  \/ PlayEvaluation
  \/ AfterEvaluation
  \/ FinishTraining

\* main is one sequential thread and every episode ends, so a step that can
\* be taken is taken.
TrainingSpec == TrainingInit /\ [][TrainingNext]_vars /\ WF_vars(TrainingNext)

\* ================================================================ claims

\* A step of the current episode has just ended.
StepDone == pc = "step" /\ frame > 0

Sign(x) == IF x > 0 THEN 1 ELSE IF x < 0 THEN -1 ELSE 0

\* C1: the Episode handed to RememberEpisode has exactly one transition
\* without a next frame, and it is the last one; every earlier transition
\* has a next frame.
C1_OneTerminalTransitionLast ==
  (pc = "reset" /\ update) =>
     /\ Len(handed) >= 1
     /\ handed[Len(handed)].next = none
     /\ \A k \in 1..(Len(handed) - 1) : handed[k].next /= none

\* An episode of two steps whose game ended in the middle of a repeat.
C1_Witness ==
  /\ pc = "reset" /\ update
  /\ Len(handed) >= 2
  /\ i < FLAGS.skip_frame + 1

\* C2: when the life count after a step's repeat is lower than before the
\* step, the shaped reward of the step is -1.
C2_LifeLossGivesMinusOne ==
  (StepDone /\ ale.lives < lives_before) => reward = -1

\* C3: the shaped reward is -1, 0 or +1: the sign of the summed score delta,
\* or -1.
C3_RewardInRange ==
  /\ reward \in {-1, 0, 1}
  /\ StepDone => reward \in {-1, Sign(immediate_score)}

\* A step that summed two negative deltas without losing a life.
C3_Witness ==
  /\ StepDone
  /\ immediate_score = -2
  /\ ale.lives >= lives_before
  /\ reward = -1


\* C4: after a training episode an evaluation is run exactly when the score
\* beats the best one after the exploration horizon, or the evaluation
\* frequency has elapsed; otherwise the loop goes on with no evaluation and
\* no snapshot.
C4_EvaluateIffTriggered ==
  [][pc = "after_episode" =>
       LET due == \/ score > best_score /\ iter >= FLAGS.explore
                  \/ iter >= last_eval_iter + FLAGS.evaluate_freq
       IN /\ due <=> (pc' = "ep_start" /\ ret' = "eval_loop" /\ ~update'
                      /\ evals' = evals + 1)
          /\ ~due => (pc' = "loop" /\ evals' = 0 /\ snaps' = <<>>)]_vars

\* An evaluation in the loop that the score alone has triggered.
C4_Witness ==
  /\ pc = "ep_start" /\ ret = "eval_loop"
  /\ iter >= FLAGS.explore
  /\ iter < last_eval_iter + FLAGS.evaluate_freq

\* C5: whenever an evaluation of a training run returns more than the best
\* score, the best score is updated and a best-score snapshot written, next
\* to the rolling one.
C5_ImprovementAlwaysRecorded ==
  [][(pc \in {"evaluated", "final_snapshot"} /\ avg_score > best_score) =>
       /\ best_score' = avg_score
       /\ \E k \in 1..Len(snaps') : snaps'[k] = HiScoreSnapshot(avg_score)
       /\ \E k \in 1..Len(snaps') : snaps'[k] = RollingSnapshot]_vars

\* C6: after the loop, no evaluation and no snapshot when the last
\* evaluation in the loop was recorded at the final iteration; otherwise
\* exactly one evaluation and one rolling snapshot. (The iteration budget is
\* positive, so last_eval_iter = iter is the mark of such an evaluation.)
C6_FinalEvaluationOnlyIfNeeded ==
  (pc = "done" /\ ~FLAGS.evaluate /\ ~FLAGS.time) =>
     IF last_eval_iter = iter
       THEN evals = 0 /\ snaps = <<>>
       ELSE evals = 1 /\ snaps = << RollingSnapshot >>

\* C7: an evaluation in the loop is followed, before the next episode, by
\* the rolling snapshot with replay memory and solver state and by the
\* record of its iteration; a best-score snapshot comes before the rolling
\* one.
C7_EvaluationThenRollingSnapshot ==
  (pc = "loop" /\ evals > 0) =>
     /\ evals = 1
     /\ last_eval_iter = iter
     /\ Len(snaps) \in {1, 2}
     /\ LET last == snaps[Len(snaps)]
        IN last.name = <<"save">> /\ last.memory /\ last.solver
     /\ Len(snaps) = 2 => snaps[1] = HiScoreSnapshot(best_score)

\* An evaluation in the loop that improved on the best score.
C7_Witness == pc = "loop" /\ evals = 1 /\ Len(snaps) = 2

\* C8: with a snapshot to resume from and no .replaymemory file, the
\* process aborts before the solver or the replay memory is restored and
\* before any episode.
C8_MissingReplayMemoryAborts ==
  (FLAGS.snapshot /= "" /\ mem_file = "missing") =>
     pc = "abort" /\ ~restored /\ ~loaded /\ played = 0

\* A discovered snapshot without its .replaymemory file.
C8_Witness ==
  FLAGS.snapshot = "found" /\ mem_file = "missing" /\ pc = "abort"

C10_EvaluateLeavesTrainingState ==
  [][(/\ ret \in {"eval_mode", "eval_loop", "eval_final"}
      /\ pc \in {"ep_start", "step", "act", "reset", "evaluate"}) =>
       /\ UNCHANGED <<iter, memory, best_score, last_eval_iter>>
       /\ episode' = <<>>
       /\ handed' = <<>>
       /\ remembers' = 0
       /\ updates' = 0]_vars

\* An evaluation in the loop has returned while the replay memory is above
\* the threshold of the learning updates.
C10_Witness ==
  /\ pc = "evaluated"
  /\ Len(memory) > FLAGS.memory_threshold

\* C11: in one training run no two best-score snapshots are written under
\* the same name (the save prefix, "_HiScore" and the integer score), and
\* none under the name of the rolling snapshot.
C11_HiScoreNamesNeverReused ==
  /\ \A j \in 1..Len(written) : \A k \in 1..Len(written) :
        j /= k => written[j] /= written[k]
  /\ \A k \in 1..Len(written) : written[k] /= RollingSnapshot.name

\* Two evaluations of one run have each improved on the best score.
C11_Witness == Len(written) = 2 /\ pc = "loop"

\* a <= b for fractions with positive denominators.
FracLE(a, b) == a[1] * b[2] <= b[1] * a[2]

\* C12: for every iteration i >= 0, horizon >= 0 and final epsilon in
\* [0, 1], CalculateEpsilon divides by a positive number only, its value
\* lies between the final epsilon and 1, is the final epsilon from the
\* horizon on (for every i when the horizon is 0), and is not above its
\* value at any earlier iteration.
C12_EpsilonAnneals ==
  pc = "epsilon_done" =>
     /\ epsilon[2] > 0
     /\ FracLE(<<FLAGS.epsilon_pm, 1000>>, epsilon)
     /\ FracLE(epsilon, <<1, 1>>)
     /\ iter >= FLAGS.explore => epsilon = <<FLAGS.epsilon_pm, 1000>>
     /\ \A j \in 0..iter :
          /\ CalculateEpsilon(j)[2] > 0
          /\ FracLE(epsilon, CalculateEpsilon(j))

\* Epsilon has come down part of the way inside the exploration horizon.
C12_Witness ==
  /\ pc = "epsilon_done"
  /\ 0 < iter /\ iter < FLAGS.explore
  /\ ~FracLE(epsilon, <<FLAGS.epsilon_pm, 1000>>)
  /\ ~FracLE(<<1, 1>>, epsilon)

\* C13: where the action of a step is chosen, the frame stack holds at most
\* W = frames_per_timestep frames: the current frames of the latest W steps,
\* oldest first, from the W-th step on, and those of all steps so far
\* before; each step has a current frame of its own, with and without
\* updates.
C13_FrameStackHoldsLatest ==
  pc = "act" =>
     LET W == FLAGS.frames_per_timestep
         steps == frame + 1
         held == IF steps >= W THEN W ELSE steps
     IN /\ Len(past_frames) <= W
        /\ current_frame = IF update THEN steps ELSE steps + 1
        /\ past_frames = [k \in 1..held |-> current_frame - held + k]

\* The third step of an episode with updates and two stacked frames: the
\* first frame has been evicted.
C13_Witness ==
  /\ pc = "act" /\ update
  /\ FLAGS.frames_per_timestep = 2
  /\ frame = 2
  /\ past_frames = <<2, 3>>

\* C14: with a positive obscure size and updates, every frame of the stack
\* handed to SelectAction has been obscured by the time of the call.
C14_SelectedFramesObscured ==
  (/\ pc = "act" /\ update
   /\ FLAGS.obscure_size > 0
   /\ Len(past_frames) = FLAGS.frames_per_timestep) =>
     \A k \in 1..Len(past_frames) : past_frames[k] \in obscured

\* C15: while the frame stack holds fewer than W frames the action is the
\* no-op and SelectAction has not been called; from then on it is called
\* once per step, the first call of an episode with continuation = false
\* and every later one with continuation = true, in every episode.
C15_FirstDecisionStartsAfresh ==
  pc = "act" =>
     LET W == FLAGS.frames_per_timestep
         steps == frame + 1
     IN /\ Len(past_frames) < W => action = PLAYER_A_NOOP /\ selects = <<>>
        /\ Len(past_frames) = W => action \in legal_actions
        /\ Len(selects) = IF steps >= W THEN steps - W + 1 ELSE 0
        /\ \A k \in 1..Len(selects) : selects[k] = (k > 1)

\* The second decision of a later episode.
C15_Witness ==
  /\ pc = "act"
  /\ played >= 2
  /\ FLAGS.frames_per_timestep = 2
  /\ selects = <<FALSE, TRUE>>

\* C16: ale.act is called only while the game is not over; when the repeat
\* of a step ends the action has been applied at least once and at most
\* skip_frame + 1 times, fewer than that only when the game is over, and
\* the step's raw score, added to the episode's total, is the sum of the
\* returns of those calls.
C16_RepeatStopsAtGameOver ==
  [][/\ ale'.acts = ale.acts + 1 =>
          /\ ~ale.game_over
          /\ pc = "act"
          /\ Len(deltas') = Len(deltas) + 1
     /\ (pc = "act" /\ pc' = "step") =>
          /\ Len(deltas) = i
          /\ 1 <= Len(deltas) /\ Len(deltas) <= FLAGS.skip_frame + 1
          /\ Len(deltas) < FLAGS.skip_frame + 1 => ale.game_over
          /\ immediate_score' = Sum(deltas)
          /\ total_score' = total_score + Sum(deltas)]_vars

\* A repeat of two calls that the end of the game cut short after one.
C16_Witness ==
  /\ pc = "act"
  /\ FLAGS.skip_frame = 1
  /\ Len(deltas) = 1
  /\ ale.game_over

\* C17: a step calls UpdateRandom once if the episode runs with updates,
\* the replay memory holds more than memory_threshold transitions and the
\* step's index in the episode is a multiple of update_frequency, and not
\* at all otherwise; at the call the episode under way holds the step's
\* transition.
C17_UpdateIffDue ==
  StepDone =>
     LET index == frame - 1
         due == /\ update
                /\ Len(memory) > FLAGS.memory_threshold
                /\ index % FLAGS.update_frequency = 0
     IN /\ updates = IF due THEN 1 ELSE 0
        /\ updates = 1 => Len(episode) = index + 1

\* The third step of an episode has run a learning update.
C17_Witness ==
  /\ StepDone /\ update
  /\ frame = 3
  /\ updates = 1

\* C19: no call of PlayOneEpisode finds the game over, whatever episodes
\* of training and evaluation went before: each call has reset the game
\* when it returns, and the process never aborts once an episode has been
\* played.
C19_EpisodesStartOnFreshGame ==
  /\ pc = "ep_start" => ~ale.game_over
  /\ pc \in {"after_episode", "evaluate", "benchmark", "log_score"} =>
        ale = FreshGame
  /\ pc = "abort" => played = 0

\* A training episode is about to start after a training episode and an
\* evaluation.
C19_Witness ==
  /\ pc = "ep_start"
  /\ played = 3
  /\ ret = "train"
  /\ Len(written) = 1

\* C20: the transitions of an episode with updates form a chain: the first
\* starts from the frame the episode began with, and each later one from
\* the next frame of the one before it.
C20_TransitionsChain ==
  (update /\ pc \in {"step", "act", "reset"}) =>
     /\ Len(episode) >= 1 => episode[1].frame = 1
     /\ \A k \in 1..(Len(episode) - 1) :
          /\ episode[k].next /= none
          /\ episode[k].next = episode[k + 1].frame
     /\ pc = "reset" => handed = episode

\* An episode of three transitions has been handed to the replay memory.
C20_Witness ==
  /\ pc = "reset" /\ update
  /\ Len(handed) = 3

\* C18 as stated: whatever the replay capacity, the memory threshold and
\* the update frequency, the training loop ends: the iteration reaches the
\* budget and the final evaluation and snapshot are done.
C18_TrainingTerminates ==
  <>(pc = "done" /\ iter >= max_iter /\ snaps = << RollingSnapshot >>)

\* C18, amended: when the replay capacity is above the memory threshold
\* (and the update frequency is positive), the training loop ends: the
\* iteration reaches the budget and the final evaluation and snapshot are
\* done.
C18_TrainingTerminatesAboveThreshold ==
  (FLAGS.memory > FLAGS.memory_threshold) =>
     <>(pc = "done" /\ iter >= max_iter /\ snaps = << RollingSnapshot >>)

\* A run has ended whose replay memory had to fill up over several
\* episodes before the first learning update.
C18_Witness ==
  /\ pc = "done"
  /\ FLAGS.memory_threshold = 2
  /\ FLAGS.memory = 3
  /\ iter >= max_iter
  /\ snaps = << RollingSnapshot >>

=============================================================================
